---- MODULE Spec2Model ----
(***************************************************************************)
(* Model of the Death-by-Scrolling save codec (scripts/dbs_codec.py) and   *)
(* of the extra4 hash-fitting utility (scripts/fit_extra4.py).             *)
(*                                                                         *)
(* Python integers are unbounded, TLC integers are 32-bit signed.  A       *)
(* Python integer x >= 0 is therefore held as the pair <<lo, hi>> with     *)
(* x = lo + 65536 * hi, 0 <= lo < 65536 and hi >= 0 (hi is NOT cut to 16   *)
(* bits: the cipher's mx term is a 33-bit value before _u32 masks it).     *)
(* A bytes object is a sequence of integers 0..255.                        *)
(***************************************************************************)
EXTENDS Integers, Naturals, Sequences, FiniteSets, TLC

VARIABLES
    pc,         \* position in the operation being run
    v,          \* word list handed to the cipher engine
    k,          \* the four key words
    vv,         \* word list returned by xxtea_encrypt_block
    vd,         \* word list returned by xxtea_decrypt_block
    b,          \* bytes handed to xxtea_encrypt_bytes / xxtea_decrypt_bytes
    out,        \* bytes they return
    payload,    \* the payload handed to pack_block (cmd_encrypt's payload)
    extra4,     \* the tag given to pack_block
    pad_bytes,  \* pack_block's pad_bytes: <<>> is None, <<bs>> is the bytes bs
    block,      \* the plaintext block pack_block returns
    enc,        \* the cipher bytes (the cipher file)
    plain,      \* the decrypted plaintext block
    unpacked,   \* what unpack_block returned (cmd_decrypt's payload, csum,
                \* extra4, padlen) or raised
    warned,     \* cmd_decrypt printed the alignment warning
    verified,   \* cmd_decrypt's report: <<>> not yet, <<TRUE>> OK, <<FALSE>> MISMATCH
    out_plain,  \* the payload file: <<>> not written, <<bs>> written with bs
    err,        \* the exception that ended the command, "" while there is none
    samples,    \* fit_extra4: the (payload, extra4) samples
    exact_hits  \* fit_extra4: the reported (function, seed label, seed value)

engineVars == <<v, k, vv, vd>>
bytesVars  == <<b, out>>
codecVars  == <<payload, extra4, pad_bytes, block, enc, plain, unpacked,
                warned, verified, out_plain, err>>
fitVars    == <<samples, exact_hits>>
vars == <<pc, engineVars, bytesVars, codecVars, fitVars>>

(***************************************************************************)
(* Integer arithmetic on <<lo, hi>> pairs.                                 *)
(***************************************************************************)
RECURSIVE Pow2(_)
Pow2(s) == IF s = 0 THEN 1 ELSE 2 * Pow2(s - 1)

RECURSIVE XorBits(_, _)
XorBits(m, n) ==
    IF m = 0 THEN n
    ELSE IF n = 0 THEN m
    ELSE ((m + n) % 2) + 2 * XorBits(m \div 2, n \div 2)

\* m ^ n for 0 <= m, n < 16, tabulated once.
XorNib == [m \in 0..15 |-> [n \in 0..15 |-> XorBits(m, n)]]

\* m ^ n on non-negative TLC integers, a nibble at a time.
RECURSIVE XorNat(_, _)
XorNat(m, n) ==
    IF m < 16 /\ n < 16 THEN XorNib[m][n]
    ELSE XorNib[m % 16][n % 16] + 16 * XorNat(m \div 16, n \div 16)

\* x ^ y
Xor(x, y) == <<XorNat(x[1], y[1]), XorNat(x[2], y[2])>>

\* x + y (unmasked: the carry out of bit 31 stays in hi)
Add(x, y) ==
    LET s == x[1] + y[1]
    IN  <<s % 65536, x[2] + y[2] + (s \div 65536)>>

\* x >> s, 0 <= s < 16
Shr(x, s) ==
    <<(x[1] \div Pow2(s)) + (x[2] % Pow2(s)) * Pow2(16 - s),
      x[2] \div Pow2(s)>>

\* x << s, 0 <= s < 16, for x < 2^32 (unmasked: bits shifted past 31 stay in hi)
Shl(x, s) ==
    LET l == x[1] * Pow2(s)
    IN  <<l % 65536, x[2] * Pow2(s) + (l \div 65536)>>

\* def _u32(x): return x & 0xFFFFFFFF
_u32(x) == <<x[1], x[2] % 65536>>

\* _u32(x - y): Python's & on a negative int is two's complement, i.e. mod 2^32
_u32Sub(x, y) ==
    LET l == x[1] - y[1]
        borrow == IF l < 0 THEN 1 ELSE 0
    IN  <<l % 65536, (x[2] - y[2] - borrow) % 65536>>

\* n * x for a small non-negative integer n (rounds * DELTA), unmasked
MulSmall(n, x) ==
    LET l == n * x[1]
    IN  <<l % 65536, n * x[2] + (l \div 65536)>>

\* DELTA = 0x9E3779B9
DELTA == <<\h79B9, \h9E37>>

Zero32 == <<0, 0>>

(***************************************************************************)
(* XXTEA / BTEA engine.  Python lists are 0-based: v[p] is v[p + 1] here.  *)
(* A loop is a function from the number of iterations done to the loop's   *)
(* variables.  [s \in {prev} |-> F(s)][prev] is F(prev) with prev computed *)
(* before F is entered, which keeps TLC's evaluation stack shallow.        *)
(***************************************************************************)
\* mx = ((_u32((z>>5) ^ (y<<2)) + _u32((y>>3) ^ (z<<4)))
\*       ^ _u32((sumv ^ y) + (k[idx] ^ z)))
MX(z, y, sumv, kw) ==
    Xor(Add(_u32(Xor(Shr(z, 5), Shl(y, 2))), _u32(Xor(Shr(y, 3), Shl(z, 4)))),
        _u32(Add(Xor(sumv, y), Xor(kw, z))))

\* e = (sumv >> 2) & 3
EOf(sumv) == (sumv[1] \div 4) % 4

\* k[(p & 3) ^ e]
KeyWord(kk, p, e) == kk[XorNib[p % 4][e] + 1]

\* Loop state of the encrypt rounds: <<v, z, sumv>>.
\* Body of "for p in range(n-1)": y = v[p+1]; mx = ...; v[p] = _u32(v[p] + mx);
\* z = v[p]
EncStep(st, p, sumv, e, kk) ==
    LET w  == st[1]
        y  == w[p + 2]
        mx == MX(st[2], y, sumv, KeyWord(kk, p, e))
        nz == _u32(Add(w[p + 1], mx))
    IN  <<[w EXCEPT ![p + 1] = nz], nz>>

\* The whole "for p in range(n-1)" loop, from <<v, z>>; inner[i] is the state
\* after i iterations.
EncInner(st0, sumv, e, kk) ==
    LET n == Len(st0[1])
        inner[i \in 0..(n - 1)] ==
            IF i = 0 THEN st0 ELSE EncStep(inner[i - 1], i - 1, sumv, e, kk)
    IN  inner[n - 1]

\* One pass of "for _ in range(rounds)".
EncRound(st, kk) ==
    LET n    == Len(st[1])
        sumv == _u32(Add(st[3], DELTA))
        e    == EOf(sumv)
        in   == EncInner(<<st[1], st[2]>>, sumv, e, kk)
        w1   == in[1]
        y    == w1[1]
        mx   == MX(in[2], y, sumv, KeyWord(kk, n - 1, e))
        nz   == _u32(Add(w1[n], mx))
    IN  <<[w1 EXCEPT ![n] = nz], nz, sumv>>

xxtea_encrypt_block(w, kk) ==
    IF Len(w) < 2 THEN w
    ELSE LET rounds == 6 + (52 \div Len(w))
             st[r \in 0..rounds] ==
                 IF r = 0 THEN <<w, w[Len(w)], Zero32>>
                 ELSE LET prev == st[r - 1]
                      IN  [s \in {prev} |-> EncRound(s, kk)][prev]
         IN  st[rounds][1]

\* Loop state of the decrypt rounds: <<v, y, sumv>>.
\* Body of "for p in range(n-1, 0, -1)": z = v[p-1]; mx = ...;
\* v[p] = _u32(v[p] - mx); y = v[p]
DecStep(st, p, sumv, e, kk) ==
    LET w  == st[1]
        z  == w[p]
        mx == MX(z, st[2], sumv, KeyWord(kk, p, e))
        ny == _u32Sub(w[p + 1], mx)
    IN  <<[w EXCEPT ![p + 1] = ny], ny>>

\* The whole "for p in range(n-1, 0, -1)" loop, from <<v, y>>; inner[i] is the
\* state after i iterations (p = n-1, n-2, ..., n-i).
DecInner(st0, sumv, e, kk) ==
    LET n == Len(st0[1])
        inner[i \in 0..(n - 1)] ==
            IF i = 0 THEN st0 ELSE DecStep(inner[i - 1], n - i, sumv, e, kk)
    IN  inner[n - 1]

\* Mutant of DecRound: the wrap-around step taps the key at (n-1) & 3, as
\* encrypt's does, instead of 0 & 3.
DecRoundTap(st, kk) ==
    LET n    == Len(st[1])
        sumv == st[3]
        e    == EOf(sumv)
        in   == DecInner(<<st[1], st[2]>>, sumv, e, kk)
        w1   == in[1]
        z    == w1[n]
        mx   == MX(z, in[2], sumv, KeyWord(kk, n - 1, e))
        ny   == _u32Sub(w1[1], mx)
    IN  <<[w1 EXCEPT ![1] = ny], ny, _u32Sub(sumv, DELTA)>>

\* One pass of "while rounds > 0".
DecRound(st, kk) ==
    LET n    == Len(st[1])
        sumv == st[3]
        e    == EOf(sumv)
        in   == DecInner(<<st[1], st[2]>>, sumv, e, kk)
        w1   == in[1]
        z    == w1[n]
        mx   == MX(z, in[2], sumv, KeyWord(kk, 0, e))
        ny   == _u32Sub(w1[1], mx)
    IN  <<[w1 EXCEPT ![1] = ny], ny, _u32Sub(sumv, DELTA)>>

\* Mutant of xxtea_decrypt_block: rounds = 6 + 52 // (n - 1).
xxtea_decrypt_block_rounds(w, kk) ==
    IF Len(w) < 2 THEN w
    ELSE LET rounds == 6 + (52 \div (Len(w) - 1))
             st[r \in 0..rounds] ==
                 IF r = 0 THEN <<w, w[1], _u32(MulSmall(rounds, DELTA))>>
                 ELSE LET prev == st[r - 1]
                      IN  [s \in {prev} |-> DecRound(s, kk)][prev]
         IN  st[rounds][1]

xxtea_decrypt_block(w, kk) ==
    IF Len(w) < 2 THEN w
    ELSE LET rounds == 6 + (52 \div Len(w))
             st[r \in 0..rounds] ==
                 IF r = 0 THEN <<w, w[1], _u32(MulSmall(rounds, DELTA))>>
                 ELSE LET prev == st[r - 1]
                      IN  [s \in {prev} |-> DecRound(s, kk)][prev]
         IN  st[rounds][1]

(***************************************************************************)
(* Byte-level cipher operations.                                           *)
(***************************************************************************)
\* struct.unpack("<%dI" % (len(bb)//4), bb)
unpack_words(bb) ==
    [i \in 1..(Len(bb) \div 4) |->
        <<bb[4 * i - 3] + 256 * bb[4 * i - 2], bb[4 * i - 1] + 256 * bb[4 * i]>>]

\* struct.pack("<%dI" % len(vv), *vv)
pack_words(ws) ==
    [j \in 1..(4 * Len(ws)) |->
        LET w == ws[(j + 3) \div 4]
            r == (j - 1) % 4
        IN  IF r = 0 THEN w[1] % 256
            ELSE IF r = 1 THEN w[1] \div 256
            ELSE IF r = 2 THEN w[2] % 256
            ELSE w[2] \div 256]

zeros(n) == [i \in 1..n |-> 0]

\* pad = (-len(b)) & 3; bb = b + b'\x00'*pad
padded(bs) == bs \o zeros((-Len(bs)) % 4)

\* Mutant of engine_words: no "if len(v) == 1: v.append(0)".
engine_words_noappend(bs) == unpack_words(padded(bs))

\* v = list(struct.unpack(...)); if len(v) == 1: v.append(0)
\* the word list both byte-level operations hand to the engine
engine_words(bs) ==
    LET w == unpack_words(padded(bs))
    IN  IF Len(w) = 1 THEN Append(w, Zero32) ELSE w

\* bytes[:n]
Take(bs, n) == SubSeq(bs, 1, IF n < Len(bs) THEN n ELSE Len(bs))

xxtea_encrypt_bytes(bs, key16_le) ==
    LET bb == padded(bs)
        kk == unpack_words(key16_le)
        w  == xxtea_encrypt_block(engine_words(bs), kk)
    IN  Take(pack_words(w), Len(bb))

\* Mutant of xxtea_decrypt_bytes: the result is cut to len(bb), as in
\* xxtea_encrypt_bytes.
xxtea_decrypt_bytes_padded(bs, key16_le) ==
    LET kk == unpack_words(key16_le)
        w  == xxtea_decrypt_block(engine_words(bs), kk)
    IN  Take(pack_words(w), Len(padded(bs)))

xxtea_decrypt_bytes(bs, key16_le) ==
    LET kk == unpack_words(key16_le)
        w  == xxtea_decrypt_block(engine_words(bs), kk)
    IN  Take(pack_words(w), Len(bs))

\* KEY = bytes.fromhex("93 9d ab 7a 2a 56 f8 af b4 db a9 b5 22 a3 4b 2b")
KEY == <<\h93, \h9d, \hab, \h7a, \h2a, \h56, \hf8, \haf,
         \hb4, \hdb, \ha9, \hb5, \h22, \ha3, \h4b, \h2b>>

\* EXTRA4 = 0x0169027d
EXTRA4 == <<\h027d, \h0169>>

(***************************************************************************)
(* Footer and checksum.                                                    *)
(* Layout: [payload | checksum(4 LE) | extra4(4 LE) | pad(0..8) | padlen]  *)
(***************************************************************************)
\* sum(payload)
sum(bs) ==
    LET acc[i \in 0..Len(bs)] == IF i = 0 THEN 0 ELSE acc[i - 1] + bs[i]
    IN  acc[Len(bs)]

\* Mutant of calc_checksum: the base 0x06583463 is left out.
calc_checksum_nobase(bs) ==
    LET t == sum(bs)
    IN  _u32(<<t % 65536, t \div 65536>>)

\* (0x06583463 + sum(payload)) & 0xFFFFFFFF
calc_checksum(bs) ==
    LET t == sum(bs)
    IN  _u32(Add(<<\h3463, \h0658>>, <<t % 65536, t \div 65536>>))

\* Mutant of pack_block: padlen = (-base) & 3.
pack_block_pad4(pl, tag, pad_opt) ==
    LET base     == Len(pl) + 9
        padlen   == (-base) % 4
        checksum == calc_checksum(pl)
        footer   == pack_words(<<checksum, tag>>)
        short    == padlen # 0 /\ pad_opt # <<>> /\ Len(pad_opt[1]) < padlen
        pad      == IF padlen # 0
                    THEN IF pad_opt = <<>> THEN zeros(padlen)
                         ELSE Take(pad_opt[1], padlen)
                    ELSE <<>>
        blk      == pl \o footer \o pad \o <<padlen>>
    IN  IF short THEN [ok |-> FALSE, err |-> "ValueError: pad_bytes zu kurz", block |-> <<>>]
        ELSE IF Len(blk) % 8 # 0
        THEN [ok |-> FALSE, err |-> "AssertionError: plain block must be multiple of 8",
              block |-> <<>>]
        ELSE [ok |-> TRUE, err |-> "", block |-> blk]

\* pack_block returns [ok |-> TRUE, block |-> the block] or raises:
\* [ok |-> FALSE, err |-> the exception].
pack_block(pl, tag, pad_opt) ==
    LET base     == Len(pl) + 9
        padlen   == (-base) % 8
        checksum == calc_checksum(pl)
        footer   == pack_words(<<checksum, tag>>)
        short    == padlen # 0 /\ pad_opt # <<>> /\ Len(pad_opt[1]) < padlen
        pad      == IF padlen # 0
                    THEN IF pad_opt = <<>> THEN zeros(padlen)
                         ELSE Take(pad_opt[1], padlen)
                    ELSE <<>>
        blk      == pl \o footer \o pad \o <<padlen>>
    IN  IF short THEN [ok |-> FALSE, err |-> "ValueError: pad_bytes zu kurz", block |-> <<>>]
        ELSE IF Len(blk) % 8 # 0
        THEN [ok |-> FALSE, err |-> "AssertionError: plain block must be multiple of 8",
              block |-> <<>>]
        ELSE [ok |-> TRUE, err |-> "", block |-> blk]

NoResult == [ok |-> FALSE, err |-> "", payload |-> <<>>, checksum |-> Zero32,
             extra4 |-> Zero32, padlen |-> 0]

Raise(msg) == [NoResult EXCEPT !.err = msg]

\* Mutant of unpack_block: the range check is 0 <= padlen <= 9.
unpack_block_le9(pln) ==
    IF Len(pln) < 9 THEN Raise("ValueError: Block zu kurz")
    ELSE LET padlen      == pln[Len(pln)]
             payload_len == Len(pln) - padlen - 9
         IN  IF ~(0 <= padlen /\ padlen <= 9)
             THEN Raise("ValueError: padlen out of range")
             ELSE IF payload_len < 0
             THEN Raise("ValueError: payload_len < 0 (korrupt?)")
             ELSE LET ws == unpack_words(SubSeq(pln, payload_len + 1, payload_len + 8))
                  IN  [ok |-> TRUE, err |-> "", payload |-> Take(pln, payload_len),
                       checksum |-> ws[1], extra4 |-> ws[2], padlen |-> padlen]

\* unpack_block returns (payload, checksum, extra4, padlen) or raises ValueError
unpack_block(pln) ==
    IF Len(pln) < 9 THEN Raise("ValueError: Block zu kurz")
    ELSE LET padlen      == pln[Len(pln)]
             payload_len == Len(pln) - padlen - 9
         IN  IF ~(0 <= padlen /\ padlen <= 8)
             THEN Raise("ValueError: padlen out of range")
             ELSE IF payload_len < 0
             THEN Raise("ValueError: payload_len < 0 (korrupt?)")
             ELSE LET ws == unpack_words(SubSeq(pln, payload_len + 1, payload_len + 8))
                  IN  [ok |-> TRUE, err |-> "", payload |-> Take(pln, payload_len),
                       checksum |-> ws[1], extra4 |-> ws[2], padlen |-> padlen]

(***************************************************************************)
(* Inputs.                                                                 *)
(***************************************************************************)
MaxWords == 4
MaxBufLen == 12

WordVals == {Zero32, <<65535, 65535>>, <<\h5678, \h1234>>}

WordSeqs == UNION {[1..n -> WordVals] : n \in 0..MaxWords}

KeyWords == {unpack_words(KEY), <<Zero32, Zero32, Zero32, <<1, 32768>>>>}

\* Byte fills: constant 0x00, constant 0xFF, and a ramp 1, 38, 75, ...
Fills == {<<0, 0>>, <<255, 0>>, <<1, 37>>}

Buf(n, f) == [i \in 1..n |-> (f[1] + (i - 1) * f[2]) % 256]

Buffers == {Buf(n, f) : n \in 0..MaxBufLen, f \in Fills}

(***************************************************************************)
(* The states a specification leaves alone.                                *)
(***************************************************************************)
EngineIdle == v = <<>> /\ k = <<>> /\ vv = <<>> /\ vd = <<>>
BytesIdle  == b = <<>> /\ out = <<>>
CodecIdle  == /\ payload = <<>> /\ extra4 = Zero32 /\ pad_bytes = <<>>
              /\ block = <<>> /\ enc = <<>> /\ plain = <<>>
              /\ unpacked = NoResult /\ warned = FALSE /\ verified = <<>>
              /\ out_plain = <<>> /\ err = ""
FitIdle    == samples = <<>> /\ exact_hits = <<>>

(***************************************************************************)
(* SpecEngine: xxtea_encrypt_block, then xxtea_decrypt_block on its result *)
(***************************************************************************)
InitEngine ==
    /\ pc = "start"
    /\ v \in WordSeqs
    /\ k \in KeyWords
    /\ vv = <<>> /\ vd = <<>>
    /\ BytesIdle /\ CodecIdle /\ FitIdle

EncryptBlock ==
    /\ pc = "start"
    /\ vv' = xxtea_encrypt_block(v, k)
    /\ pc' = "encrypted"
    /\ UNCHANGED <<v, k, vd, bytesVars, codecVars, fitVars>>

DecryptBlock ==
    /\ pc = "encrypted"
    /\ vd' = xxtea_decrypt_block(vv, k)
    /\ pc' = "decrypted"
    /\ UNCHANGED <<v, k, vv, bytesVars, codecVars, fitVars>>

NextEngine == EncryptBlock \/ DecryptBlock

SpecEngine == InitEngine /\ [][NextEngine]_vars

\* C7: xxtea_decrypt_block undoes xxtea_encrypt_block under the same key for
\* every word list (n = 2, 3, odd n included), and for n < 2 both return the
\* list unchanged.
C7_DecryptInvertsEncrypt ==
    /\ (pc = "decrypted" => vd = v)
    /\ (pc \in {"encrypted", "decrypted"} /\ Len(v) < 2 => vv = v)

\* an odd-length list was enciphered to something else and deciphered back
C7_Witness ==
    pc = "decrypted" /\ Len(v) = 3 /\ vv # v /\ vd = v

(***************************************************************************)
(* SpecBytes: xxtea_encrypt_bytes or xxtea_decrypt_bytes on a buffer       *)
(***************************************************************************)
InitBytes ==
    /\ pc = "start"
    /\ b \in Buffers
    /\ out = <<>>
    /\ EngineIdle /\ CodecIdle /\ FitIdle

EncryptBytes ==
    /\ pc = "start"
    /\ v' = engine_words(b)
    /\ out' = xxtea_encrypt_bytes(b, KEY)
    /\ pc' = "encrypted_bytes"
    /\ UNCHANGED <<k, vv, vd, b, codecVars, fitVars>>

DecryptBytes ==
    /\ pc = "start"
    /\ v' = engine_words(b)
    /\ out' = xxtea_decrypt_bytes(b, KEY)
    /\ pc' = "decrypted_bytes"
    /\ UNCHANGED <<k, vv, vd, b, codecVars, fitVars>>

NextBytes == EncryptBytes \/ DecryptBytes

SpecBytes == InitBytes /\ [][NextBytes]_vars

\* C5 as claimed: for every buffer, the empty one included, the word list
\* handed to the engine has at least 2 words.
C5_AtLeastTwoWords ==
    pc \in {"encrypted_bytes", "decrypted_bytes"} => Len(v) >= 2

\* C5 amended: every non-empty buffer gives the engine at least 2 words; the
\* empty buffer gives it no word at all (the engine's n < 2 branch), and the
\* operation returns the empty buffer.
C5_AtLeastTwoWordsUnlessEmpty ==
    pc \in {"encrypted_bytes", "decrypted_bytes"} =>
        /\ (Len(b) > 0 => Len(v) >= 2)
        /\ (Len(b) = 0 => v = <<>> /\ out = <<>>)

\* a buffer of 1..4 bytes went through and the engine got two words
C5_Witness ==
    pc = "decrypted_bytes" /\ Len(b) \in 1..4 /\ Len(v) = 2

\* C8 as claimed: both operations return exactly len(b) bytes.
C8_OutputHasInputLength ==
    pc \in {"encrypted_bytes", "decrypted_bytes"} => Len(out) = Len(b)

\* C8 amended: xxtea_decrypt_bytes returns exactly len(b) bytes;
\* xxtea_encrypt_bytes returns len(b) rounded up to a multiple of 4 (the
\* zero-padded length), so exactly len(b) bytes when len(b) is a multiple of
\* 4; the word appended to a one-word input is in neither output.
C8_OutputLength ==
    /\ (pc = "decrypted_bytes" => Len(out) = Len(b))
    /\ (pc = "encrypted_bytes" => Len(out) = Len(b) + ((-Len(b)) % 4))

\* a 5-byte buffer was enciphered to 8 bytes
C8_Witness ==
    pc = "encrypted_bytes" /\ Len(b) = 5 /\ Len(out) = 8

(***************************************************************************)
(* Inputs of the trailer codec and of the two commands.                    *)
(***************************************************************************)
MaxSeqLen == 3
MaxPayloadLen == 9
MaxBlockLen == 18
MaxCipherLen == 17

ByteVals == {0, 1, 255}

Tags == {EXTRA4, Zero32, <<65535, 65535>>, <<\hBEEF, \hDEAD>>}

\* None, eight 0xAA bytes, seven bytes 1..7, and three bytes (too short for a
\* padlen above 3)
PadChoices == {<<>>, <<Buf(8, <<170, 0>>)>>, <<Buf(7, <<1, 1>>)>>,
               <<Buf(3, <<9, 9>>)>>}

\* b"hello"
Hello == <<104, 101, 108, 108, 111>>

PatternPayloads == {Buf(n, f) : n \in 0..MaxPayloadLen, f \in Fills} \cup {Hello}

TrailerPayloads ==
    PatternPayloads \cup UNION {[1..n -> ByteVals] : n \in 0..MaxSeqLen}

\* Plaintext blocks of every length 0..MaxBlockLen whose last byte takes every
\* value 0..255
PlainBlocks ==
    {<<>>} \cup {Append(Buf(n, f), last) :
                    n \in 0..(MaxBlockLen - 1), f \in Fills, last \in 0..255}

\* Cipher files written by the script itself (xxtea_encrypt_bytes under KEY):
\*   the block of b"hello" (16 bytes, checksum OK),
\*   the same block with a checksum byte flipped (16 bytes, MISMATCH),
\*   b"abc" + footer + padlen 0 (12 bytes: not a multiple of 8, checksum OK);
\* and two files of 10 and 13 bytes whose decryption happens to end in a
\* padlen byte of 0 and 4.
CraftedFiles ==
    {<<101, 64, 193, 206, 243, 155, 180, 80, 83, 7, 210, 104, 251, 205, 248, 246>>,
     <<195, 174, 160, 247, 173, 199, 121, 211, 116, 198, 51, 0, 126, 243, 47, 170>>,
     <<106, 253, 97, 7, 118, 252, 118, 252, 91, 76, 165, 187>>,
     <<1, 48, 0, 0, 0, 0, 0, 0, 0, 0>>,
     <<0, 7, 0, 0, 0, 0, 0, 0, 0, 0, 0, 0, 0>>}

CipherFiles == CraftedFiles \cup {Buf(n, f) : n \in 0..MaxCipherLen, f \in Fills}

(***************************************************************************)
(* pack_block and unpack_block as operations on the state.                 *)
(***************************************************************************)
\* block = pack_block(payload, extra4, pad_bytes)
Pack ==
    /\ pc = "start"
    /\ LET r == pack_block(payload, extra4, pad_bytes)
       IN  IF r.ok
           THEN block' = r.block /\ err' = "" /\ pc' = "have_block"
           ELSE block' = block /\ err' = r.err /\ pc' = "pack_raised"
    /\ UNCHANGED <<engineVars, bytesVars, fitVars, payload, extra4, pad_bytes,
                   enc, plain, unpacked, warned, verified, out_plain>>

\* unpack_block(block)
Unpack ==
    /\ pc = "have_block"
    /\ unpacked' = unpack_block(block)
    /\ err' = unpacked'.err
    /\ pc' = IF unpacked'.ok THEN "unpacked" ELSE "unpack_raised"
    /\ UNCHANGED <<engineVars, bytesVars, fitVars, payload, extra4, pad_bytes,
                   block, enc, plain, warned, verified, out_plain>>

InitTrailer ==
    /\ pc = "start"
    /\ payload \in TrailerPayloads
    /\ extra4 \in Tags
    /\ pad_bytes \in PadChoices
    /\ block = <<>> /\ enc = <<>> /\ plain = <<>> /\ unpacked = NoResult
    /\ warned = FALSE /\ verified = <<>> /\ out_plain = <<>> /\ err = ""
    /\ EngineIdle /\ BytesIdle /\ FitIdle

NextTrailer == Pack \/ Unpack

SpecTrailer == InitTrailer /\ [][NextTrailer]_vars

InitUnpack ==
    /\ pc = "have_block"
    /\ block \in PlainBlocks
    /\ payload = <<>> /\ extra4 = Zero32 /\ pad_bytes = <<>>
    /\ enc = <<>> /\ plain = <<>> /\ unpacked = NoResult
    /\ warned = FALSE /\ verified = <<>> /\ out_plain = <<>> /\ err = ""
    /\ EngineIdle /\ BytesIdle /\ FitIdle

NextUnpack == Unpack

SpecUnpack == InitUnpack /\ [][NextUnpack]_vars

\* The number a 32-bit word <<lo, hi>> stands for, when it is below 2^31.
Num(w) == w[1] + 65536 * w[2]

\* C9: unpack_block(pack_block(payload, tag, pad)) returns the payload, the
\* checksum 0x06583463 + sum(payload), the tag, and padlen = the number of pad
\* bytes present = the least value in 0..7 making len(payload) + 9 + padlen a
\* multiple of 8; nothing in the result depends on the pad bytes.
C9_UnpackInvertsPack ==
    /\ pc # "unpack_raised"
    /\ pc = "unpacked" =>
        /\ unpacked.payload = payload
        /\ Num(unpacked.checksum) = 106443875 + sum(payload)
        /\ unpacked.extra4 = extra4
        /\ unpacked.padlen = Len(block) - Len(payload) - 9
        /\ unpacked.padlen \in 0..7
        /\ (Len(payload) + 9 + unpacked.padlen) % 8 = 0
        /\ \A q \in 0..7 :
              (Len(payload) + 9 + q) % 8 = 0 => q >= unpacked.padlen

\* a block padded with caller-supplied non-zero bytes was unpacked
C9_Witness ==
    /\ pc = "unpacked" /\ pad_bytes # <<>> /\ unpacked.padlen = 5
    /\ block[Len(block) - 1] # 0 /\ extra4 = <<\hBEEF, \hDEAD>>

\* C3 as claimed: on a block of at least 9 bytes unpack_block raises when the
\* last byte is in 9..255 and accepts when it is in 0..8.
C3_AcceptsExactly0to8 ==
    pc \in {"unpacked", "unpack_raised"} /\ Len(block) >= 9 =>
        /\ (block[Len(block)] \in 9..255 => pc = "unpack_raised")
        /\ (block[Len(block)] \in 0..8 => pc = "unpacked")

\* C3 amended: on a block of at least 9 bytes unpack_block raises "padlen out
\* of range" when the last byte is in 9..255; when it is in 0..8 it accepts
\* (returning that padlen and a payload of len - padlen - 9 bytes) provided
\* len - padlen - 9 >= 0, which is every such block of 17 bytes or more, and
\* raises "payload_len < 0" otherwise.
C3_PadlenBounds ==
    pc \in {"unpacked", "unpack_raised"} /\ Len(block) >= 9 =>
        LET last == block[Len(block)]
        IN  /\ (last \in 9..255 =>
                  pc = "unpack_raised" /\ err = "ValueError: padlen out of range")
            /\ (last \in 0..8 /\ Len(block) - last - 9 >= 0 =>
                  /\ pc = "unpacked" /\ err = ""
                  /\ unpacked.padlen = last
                  /\ Len(unpacked.payload) = Len(block) - last - 9)
            /\ (last \in 0..8 /\ Len(block) - last - 9 < 0 =>
                  /\ pc = "unpack_raised"
                  /\ err = "ValueError: payload_len < 0 (korrupt?)")
            /\ (Len(block) >= 17 /\ last \in 0..8 => pc = "unpacked")

\* a 17-byte block with padlen 8 was accepted
C3_Witness ==
    pc = "unpacked" /\ Len(block) = 17 /\ unpacked.padlen = 8

(***************************************************************************)
(* cmd_encrypt and cmd_decrypt.  cmd_encrypt is Pack, then EncCipher (with *)
(* extra4 = EXTRA4 and pad_bytes = None); cmd_decrypt is DecRead,          *)
(* DecCipher, DecUnpack, DecReport, DecWrite, one step per statement.      *)
(***************************************************************************)
\* enc = xxtea_encrypt_bytes(block, KEY); assert (len(enc) & 7) == 0;
\* open(args.out_cipher, "wb").write(enc)
EncCipher ==
    /\ pc = "have_block"
    /\ enc' = xxtea_encrypt_bytes(block, KEY)
    /\ IF Len(enc') % 8 # 0
       THEN err' = "AssertionError: cipher must be multiple of 8"
            /\ pc' = "encrypt_raised"
       ELSE err' = "" /\ pc' = "cipher_written"
    /\ UNCHANGED <<engineVars, bytesVars, fitVars, payload, extra4, pad_bytes,
                   block, plain, unpacked, warned, verified, out_plain>>

\* Mutant of DecRead: a length that is not a multiple of 8 is rejected.
DecReadStrict ==
    /\ pc = "cipher_written"
    /\ warned' = (Len(enc) % 8 # 0)
    /\ IF warned'
       THEN pc' = "dec_raised" /\ err' = "ValueError: cipher len"
       ELSE pc' = "dec_read" /\ err' = err
    /\ UNCHANGED <<engineVars, bytesVars, fitVars, payload, extra4, pad_bytes,
                   block, enc, plain, unpacked, verified, out_plain>>

\* enc = open(args.cipher, "rb").read(); if (len(enc) & 7) != 0: print("[warn] ...")
DecRead ==
    /\ pc = "cipher_written"
    /\ warned' = (Len(enc) % 8 # 0)
    /\ pc' = "dec_read"
    /\ UNCHANGED <<engineVars, bytesVars, fitVars, payload, extra4, pad_bytes,
                   block, enc, plain, unpacked, verified, out_plain, err>>

\* plain = xxtea_decrypt_bytes(enc, KEY)
DecCipher ==
    /\ pc = "dec_read"
    /\ plain' = xxtea_decrypt_bytes(enc, KEY)
    /\ pc' = "dec_plain"
    /\ UNCHANGED <<engineVars, bytesVars, fitVars, payload, extra4, pad_bytes,
                   block, enc, unpacked, warned, verified, out_plain, err>>

\* payload, csum, extra4, padlen = unpack_block(plain)
DecUnpack ==
    /\ pc = "dec_plain"
    /\ unpacked' = unpack_block(plain)
    /\ err' = unpacked'.err
    /\ pc' = IF unpacked'.ok THEN "dec_unpacked" ELSE "dec_raised"
    /\ UNCHANGED <<engineVars, bytesVars, fitVars, payload, extra4, pad_bytes,
                   block, enc, plain, warned, verified, out_plain>>

\* Mutant of DecReport: a checksum mismatch raises.
DecReportStrict ==
    /\ pc = "dec_unpacked"
    /\ verified' = <<unpacked.checksum = calc_checksum(unpacked.payload)>>
    /\ IF verified' = <<TRUE>>
       THEN pc' = "dec_reported" /\ err' = err
       ELSE pc' = "dec_raised" /\ err' = "ValueError: checksum mismatch"
    /\ UNCHANGED <<engineVars, bytesVars, fitVars, payload, extra4, pad_bytes,
                   block, enc, plain, unpacked, warned, out_plain>>

\* calc = calc_checksum(payload); print(... 'OK' if csum==calc else 'MISMATCH')
DecReport ==
    /\ pc = "dec_unpacked"
    /\ verified' = <<unpacked.checksum = calc_checksum(unpacked.payload)>>
    /\ pc' = "dec_reported"
    /\ UNCHANGED <<engineVars, bytesVars, fitVars, payload, extra4, pad_bytes,
                   block, enc, plain, unpacked, warned, out_plain, err>>

\* open(args.out_plain, "wb").write(payload)
DecWrite ==
    /\ pc = "dec_reported"
    /\ out_plain' = <<unpacked.payload>>
    /\ pc' = "dec_done"
    /\ UNCHANGED <<engineVars, bytesVars, fitVars, payload, extra4, pad_bytes,
                   block, enc, plain, unpacked, warned, verified, err>>

\* SpecCodec: the encrypt path on a payload, then the decrypt path on the
\* cipher file it wrote.
InitCodec ==
    /\ pc = "start"
    /\ payload \in PatternPayloads
    /\ extra4 \in {EXTRA4, <<\hBEEF, \hDEAD>>}
    /\ pad_bytes \in PadChoices
    /\ block = <<>> /\ enc = <<>> /\ plain = <<>> /\ unpacked = NoResult
    /\ warned = FALSE /\ verified = <<>> /\ out_plain = <<>> /\ err = ""
    /\ EngineIdle /\ BytesIdle /\ FitIdle

NextCodec ==
    \/ Pack
    \/ EncCipher
    \/ DecRead
    \/ DecCipher
    \/ DecUnpack
    \/ DecReport
    \/ DecWrite

SpecCodec == InitCodec /\ [][NextCodec]_vars

\* SpecDecrypt: cmd_decrypt on an arbitrary cipher file.
InitDecrypt ==
    /\ pc = "cipher_written"
    /\ enc \in CipherFiles
    /\ payload = <<>> /\ extra4 = Zero32 /\ pad_bytes = <<>>
    /\ block = <<>> /\ plain = <<>> /\ unpacked = NoResult
    /\ warned = FALSE /\ verified = <<>> /\ out_plain = <<>> /\ err = ""
    /\ EngineIdle /\ BytesIdle /\ FitIdle

NextDecrypt ==
    \/ DecRead
    \/ DecCipher
    \/ DecUnpack
    \/ DecReport
    \/ DecWrite

SpecDecrypt == InitDecrypt /\ [][NextDecrypt]_vars

\* C1: the decrypt path applied to what the encrypt path wrote returns the
\* original payload with a stored checksum equal to the recomputed one
\* (verified), for every payload, tag and sufficient padding; nothing raises
\* but pack_block on pad_bytes that are too short.
C1_RoundTrip ==
    /\ pc \notin {"encrypt_raised", "dec_raised"}
    /\ (pc = "pack_raised" =>
            pad_bytes # <<>> /\ Len(pad_bytes[1]) < (-(Len(payload) + 9)) % 8)
    /\ (pc \in {"dec_plain", "dec_unpacked", "dec_reported", "dec_done"} =>
            plain = block)
    /\ (pc \in {"dec_unpacked", "dec_reported", "dec_done"} =>
            unpacked.payload = payload /\ unpacked.extra4 = extra4)
    /\ (pc \in {"dec_reported", "dec_done"} =>
            /\ verified = <<TRUE>>
            /\ Num(unpacked.checksum) = 106443875 + sum(payload))
    /\ (pc = "dec_done" => out_plain = <<payload>>)

\* the known vector: b"hello" under KEY and EXTRA4 with zero padding gives the
\* 16 cipher bytes the script writes, and decrypts back to b"hello", verified
C1_Witness ==
    /\ pc = "dec_done" /\ payload = Hello /\ extra4 = EXTRA4 /\ pad_bytes = <<>>
    /\ enc = <<101, 64, 193, 206, 243, 155, 180, 80,
               83, 7, 210, 104, 251, 205, 248, 246>>
    /\ out_plain = <<Hello>> /\ verified = <<TRUE>>

\* C2: neither length assertion of the encrypt path fails: the block
\* pack_block returns has a length that is a multiple of 8, and the cipher
\* bytes have the block's length (a multiple of 8, at least 16).
C2_EncryptLengths ==
    /\ err \notin {"AssertionError: plain block must be multiple of 8",
                   "AssertionError: cipher must be multiple of 8"}
    /\ pc # "encrypt_raised"
    /\ (pc \notin {"start", "pack_raised"} =>
            Len(block) % 8 = 0 /\ Len(block) >= Len(payload) + 9)
    /\ (pc \notin {"start", "pack_raised", "have_block"} =>
            Len(enc) = Len(block) /\ Len(enc) % 8 = 0 /\ Len(enc) >= 16)

\* an 8-byte payload was packed into 24 bytes and enciphered into 24
C2_Witness ==
    pc = "cipher_written" /\ Len(payload) = 8 /\ Len(block) = 24 /\ Len(enc) = 24

\* unpack_block's three framing errors, stated on the plaintext
Framing(pln) ==
    \/ Len(pln) < 9
    \/ pln[Len(pln)] > 8
    \/ Len(pln) - pln[Len(pln)] - 9 < 0

\* C4 as claimed: a cipher buffer whose length is not a multiple of 8 never
\* makes cmd_decrypt raise.
C4_UnalignedNeverRaises ==
    warned => pc # "dec_raised"

\* C4 amended: a cipher buffer whose length is not a multiple of 8 makes
\* cmd_decrypt warn and go on: it decrypts to a plaintext of the same length
\* and unpacks it.  The payload is written exactly when unpack_block accepts
\* that plaintext; otherwise (always below 9 bytes) its ValueError ends the
\* command.
C4_UnalignedOnlyWarns ==
    /\ (pc # "cipher_written" => warned = (Len(enc) % 8 # 0))
    /\ (warned /\ pc \in {"dec_plain", "dec_unpacked", "dec_reported",
                          "dec_done", "dec_raised"} =>
            Len(plain) = Len(enc))
    /\ (warned /\ pc = "dec_raised" =>
            /\ Framing(plain)
            /\ err \in {"ValueError: Block zu kurz",
                        "ValueError: padlen out of range",
                        "ValueError: payload_len < 0 (korrupt?)"}
            /\ out_plain = <<>>)
    /\ (warned /\ pc \in {"dec_unpacked", "dec_reported", "dec_done"} =>
            ~Framing(plain))
    /\ (warned /\ pc = "dec_done" =>
            out_plain = <<Take(plain, Len(plain) - plain[Len(plain)] - 9)>>)
    /\ (warned /\ Len(enc) < 9 =>
            pc \in {"dec_read", "dec_plain", "dec_raised"})

\* a 13-byte cipher file was decoded and its payload written
C4_Witness ==
    warned /\ pc = "dec_done" /\ Len(enc) = 13 /\ out_plain # <<>>

\* C6: in cmd_decrypt the payload file is written exactly when unpack_block
\* succeeds: a framing error ends the command with nothing written, and after
\* a successful unpack the report and the write follow whether the checksum
\* matches or not.
C6_WrittenIffUnpacked ==
    /\ (out_plain # <<>> =>
            pc = "dec_done" /\ ~Framing(plain) /\ out_plain = <<unpacked.payload>>)
    /\ (pc = "dec_raised" => Framing(plain) /\ out_plain = <<>>)
    /\ (pc \in {"dec_unpacked", "dec_reported", "dec_done"} => ~Framing(plain))
    /\ (pc = "dec_unpacked" => ENABLED DecReport)
    /\ (pc = "dec_reported" => ENABLED DecWrite)
    /\ (pc = "dec_done" => out_plain # <<>> /\ verified # <<>>)

\* a payload whose stored checksum does not match was written all the same
C6_Witness ==
    pc = "dec_done" /\ verified = <<FALSE>> /\ out_plain # <<>>

(***************************************************************************)
(* fit_extra4.py: the 32-bit hash candidates.  Here every intermediate is  *)
(* cut to 32 bits as soon as it is produced (the source masks at the end   *)
(* of each statement; the low 32 bits are the same, and TLC's integers     *)
(* cannot hold the 48- and 64-bit intermediates).  A seed is <<>> for None *)
(* and <<w>> for the integer w.                                            *)
(***************************************************************************)
RECURSIVE OrBits(_, _)
OrBits(m, n) ==
    IF m = 0 THEN n
    ELSE IF n = 0 THEN m
    ELSE (IF m % 2 = 1 \/ n % 2 = 1 THEN 1 ELSE 0) + 2 * OrBits(m \div 2, n \div 2)

OrNib == [m \in 0..15 |-> [n \in 0..15 |-> OrBits(m, n)]]

RECURSIVE OrNat(_, _)
OrNat(m, n) ==
    IF m < 16 /\ n < 16 THEN OrNib[m][n]
    ELSE OrNib[m % 16][n % 16] + 16 * OrNat(m \div 16, n \div 16)

\* x | y
Or(x, y) == <<OrNat(x[1], y[1]), OrNat(x[2], y[2])>>

\* (x << s) & 0xFFFFFFFF for 0 <= s < 32
Shl32(x, s) ==
    IF s >= 16 THEN <<0, (x[1] * Pow2(s - 16)) % 65536>>
    ELSE <<(x[1] * Pow2(s)) % 65536,
           (((x[2] * Pow2(s)) % 65536) + ((x[1] * Pow2(s)) \div 65536)) % 65536>>

\* x >> s for 0 <= s < 32 and x < 2^32
Shr32(x, s) ==
    IF s >= 16 THEN <<x[2] \div Pow2(s - 16), 0>> ELSE Shr(x, s)

\* (x + y) & 0xFFFFFFFF
Add32(x, y) == _u32(Add(x, y))

\* (m * n) & 0xFFFF for m, n < 2^16, without leaving TLC's integers
MulLow16(m, n) ==
    ((m * (n % 256)) + (256 * ((m * (n \div 256)) % 256))) % 65536

\* (x * y) & 0xFFFFFFFF
Mul32(x, y) ==
    LET p0    == x[1] * (y[1] % 256)
        p1    == x[1] * (y[1] \div 256)
        lolo  == Add(<<p0 % 65536, p0 \div 65536>>,
                     Shl32(<<p1 % 65536, p1 \div 65536>>, 8))
        cross == MulLow16(x[1], y[2]) + MulLow16(x[2], y[1])
    IN  <<lolo[1], (lolo[2] + cross) % 65536>>

Word(n) == <<n % 65536, n \div 65536>>

coerce_u32(x) == _u32(x)

seed_or_default(seed, default) ==
    IF seed = <<>> THEN default ELSE coerce_u32(seed[1])

\* zlib.adler32(data, s) & 0xFFFFFFFF: the two 16-bit sums modulo 65521
adler32(data, seed) ==
    LET s0 == seed_or_default(seed, Word(1))
        st[i \in 0..Len(data)] ==
            IF i = 0 THEN <<s0[1] % 65521, s0[2] % 65521>>
            ELSE LET prev == st[i - 1]
                     lo   == (prev[1] + data[i]) % 65521
                 IN  <<lo, (prev[2] + lo) % 65521>>
    IN  st[Len(data)]

\* one bit of the table-less CRC-32: crc = (crc >> 1) ^ 0xEDB88320 if crc & 1
\* else crc >> 1
CrcBit(crc) ==
    IF crc[1] % 2 = 1 THEN Xor(Shr(crc, 1), <<\h8320, \hEDB8>>) ELSE Shr(crc, 1)

CrcByte(crc, byte) ==
    LET bits[i \in 0..8] ==
            IF i = 0 THEN Xor(crc, Word(byte)) ELSE CrcBit(bits[i - 1])
    IN  bits[8]

\* binascii.crc32(data, s) & 0xFFFFFFFF: the reflected CRC-32 (polynomial
\* 0xEDB88320), continued from the running value s
crc32(data, seed) ==
    LET s0 == seed_or_default(seed, Zero32)
        ones == <<65535, 65535>>
        st[i \in 0..Len(data)] ==
            IF i = 0 THEN Xor(s0, ones) ELSE CrcByte(st[i - 1], data[i])
    IN  Xor(st[Len(data)], ones)

\* h = ((h << 5) + h + b) & 0xFFFFFFFF
djb2(data, seed) ==
    LET s0 == seed_or_default(seed, Word(5381))
        h[i \in 0..Len(data)] ==
            IF i = 0 THEN s0
            ELSE LET prev == h[i - 1]
                 IN  Add32(Add32(Shl32(prev, 5), prev), Word(data[i]))
    IN  h[Len(data)]

\* h = (b + (h << 6) + (h << 16) - h) & 0xFFFFFFFF
sdbm(data, seed) ==
    LET s0 == seed_or_default(seed, Zero32)
        h[i \in 0..Len(data)] ==
            IF i = 0 THEN s0
            ELSE LET prev == h[i - 1]
                 IN  _u32Sub(Add32(Add32(Word(data[i]), Shl32(prev, 6)),
                                   Shl32(prev, 16)),
                             prev)
    IN  h[Len(data)]

\* h = (h + b); h = (h + (h << 10)); h ^= (h >> 6)
JenkinsStep(h0, byte) ==
    LET h1 == Add32(h0, Word(byte))
        h2 == Add32(h1, Shl32(h1, 10))
    IN  Xor(h2, Shr32(h2, 6))

jenkins_oaat(data, seed) ==
    LET s0 == seed_or_default(seed, Zero32)
        h[i \in 0..Len(data)] ==
            IF i = 0 THEN s0 ELSE JenkinsStep(h[i - 1], data[i])
        hn == h[Len(data)]
        h1 == Add32(hn, Shl32(hn, 3))
        h2 == Xor(h1, Shr32(h1, 11))
    IN  Add32(h2, Shl32(h2, 15))

\* ((x << r) | (x >> (32 - r))) & 0xFFFFFFFF
_rotl32(x, r) == Or(Shl32(x, r), Shr32(x, 32 - r))

_fmix32(h0) ==
    LET h1 == Mul32(Xor(h0, Shr32(h0, 16)), <<\hCA6B, \h85EB>>)
        h2 == Mul32(Xor(h1, Shr32(h1, 13)), <<\hAE35, \hC2B2>>)
    IN  Xor(h2, Shr32(h2, 16))

\* k = (k * c1); k = _rotl32(k, 15); k = (k * c2)
MurmurK(kw) ==
    Mul32(_rotl32(Mul32(kw, <<\h2D51, \hCC9E>>), 15), <<\h3593, \h1B87>>)

\* body step on the i-th 4-byte chunk: h ^= k; h = _rotl32(h, 13);
\* h = (h * 5 + 0xE6546B64)
MurmurBody(h0, data, i) ==
    LET kw == <<data[4 * i - 3] + 256 * data[4 * i - 2],
                data[4 * i - 1] + 256 * data[4 * i]>>
        h1 == _rotl32(Xor(h0, MurmurK(kw)), 13)
    IN  Add32(MulSmall(5, h1), <<\h6B64, \hE654>>)

murmur3_x86_32(data, seed) ==
    LET s0 == seed_or_default(seed, Zero32)
        n  == Len(data)
        nb == n \div 4
        h[i \in 0..nb] ==
            IF i = 0 THEN s0 ELSE MurmurBody(h[i - 1], data, i)
        tail == SubSeq(data, 4 * nb + 1, n)
        k3 == IF Len(tail) = 3 THEN <<0, tail[3]>> ELSE Zero32
        k2 == IF Len(tail) >= 2 THEN Xor(k3, <<256 * tail[2], 0>>) ELSE k3
        ht == IF Len(tail) >= 1
              THEN Xor(h[nb], MurmurK(Xor(k2, <<tail[1], 0>>)))
              ELSE h[nb]
    IN  _fmix32(Xor(ht, Word(n)))

(***************************************************************************)
(* fit_extra4.py: seed strategies and main's search.                       *)
(***************************************************************************)
\* FUNCS, in the dict's order
FUNCS == <<"crc32", "adler32", "djb2", "sdbm", "jenkins", "murmur3_32">>

\* FUNCS[fname](data, seed)
CallFunc(fname, data, seed) ==
    CASE fname = "crc32"      -> crc32(data, seed)
      [] fname = "adler32"    -> adler32(data, seed)
      [] fname = "djb2"       -> djb2(data, seed)
      [] fname = "sdbm"       -> sdbm(data, seed)
      [] fname = "jenkins"    -> jenkins_oaat(data, seed)
      [] fname = "murmur3_32" -> murmur3_x86_32(data, seed)

DYN_SEEDS == <<"len", "sum8", "sum32">>

dyn_seed(name, pl) ==
    CASE name = "len"   -> Word(Len(pl))
      [] name = "sum8"  -> Word(sum(pl) % 256)
      [] name = "sum32" -> Word(sum(pl))

\* FIXED_SEEDS = [None, 0, 1, 33, 5381, 0xDEADBEEF, 0xA5A5A5A5]
FIXED_SEEDS == << <<>>, <<Word(0)>>, <<Word(1)>>, <<Word(33)>>, <<Word(5381)>>,
                  << <<\hBEEF, \hDEAD>> >>, << <<\hA5A5, \hA5A5>> >> >>

\* the (label, seed value) candidates: the fixed seeds, then the dynamic ones
\* computed from the given payload
all_seed_candidates(pl) ==
    [i \in 1..Len(FIXED_SEEDS) |-> <<"fixed", FIXED_SEEDS[i]>>]
    \o [i \in 1..Len(DYN_SEEDS) |->
            <<"dyn:" \o DYN_SEEDS[i], <<dyn_seed(DYN_SEEDS[i], pl)>> >>]

\* main's search: for each function, for each seed candidate of the FIRST
\* sample's payload, a hit when the function with that seed value gives every
\* sample's extra4.  The hits are (function, label, seed value), in order.
main_exact_hits(smp) ==
    LET seed_candidates == all_seed_candidates(smp[1][1])
        nc  == Len(seed_candidates)
        all == [i \in 1..(Len(FUNCS) * nc) |->
                   <<FUNCS[((i - 1) \div nc) + 1],
                     seed_candidates[((i - 1) % nc) + 1][1],
                     seed_candidates[((i - 1) % nc) + 1][2]>>]
        ok(h) == \A j \in 1..Len(smp) : CallFunc(h[1], smp[j][1], h[3]) = smp[j][2]
    IN  SelectSeq(all, ok)

MaxSamples == 2

FitPayloads == {<<>>, <<1>>, <<1, 2>>}

\* extra4 values some candidate produces on these payloads:
\* 0 and 1 (sdbm and djb2 from seed 0), 34 = djb2(b"\x01", 1),
\* 5381 = djb2(b""), 2213 = djb2(b"\x01\x02", 2)
FitTags == {Word(0), Word(1), Word(34), Word(5381), Word(2213)}

InitFit ==
    /\ pc = "start"
    /\ samples \in UNION {[1..n -> FitPayloads \X FitTags] : n \in 1..MaxSamples}
    /\ exact_hits = <<>>
    /\ EngineIdle /\ BytesIdle /\ CodecIdle

\* main(): the search, then "[OK] exact matches" (exit 0) or "[FAIL] ..."
Fit ==
    /\ pc = "start"
    /\ exact_hits' = main_exact_hits(samples)
    /\ pc' = IF exact_hits' # <<>> THEN "fit_ok" ELSE "fit_fail"
    /\ UNCHANGED <<engineVars, bytesVars, codecVars, samples>>

NextFit == Fit

SpecFit == InitFit /\ [][NextFit]_vars

\* the seed a reported strategy stands for on a given payload: the payload's
\* own len / sum8 / sum32 for a dyn label, the fixed value otherwise
StrategySeed(label, seed_val, pl) ==
    CASE label = "dyn:len"   -> <<Word(Len(pl))>>
      [] label = "dyn:sum8"  -> <<Word(sum(pl) % 256)>>
      [] label = "dyn:sum32" -> <<Word(sum(pl))>>
      [] OTHER               -> seed_val

\* C10: every reported (function, strategy) reproduces every sample's extra4
\* when the function is seeded by that strategy on that sample's own payload.
C10_HitsHoldOnEverySample ==
    pc \in {"fit_ok", "fit_fail"} =>
        \A i \in 1..Len(exact_hits) : \A j \in 1..Len(samples) :
            CallFunc(exact_hits[i][1], samples[j][1],
                     StrategySeed(exact_hits[i][2], exact_hits[i][3], samples[j][1]))
                = samples[j][2]

====
